---- MODULE Spec2Model ----
(***************************************************************************)
(* File lifecycle engine of vpconnect: version manager, trash / recovery   *)
(* manager and shareable link manager, in the STORAGE_TYPE=aws             *)
(* configuration (AwsStorage).                                             *)
(*                                                                         *)
(* The FILES partition of the document table and the relational `files`    *)
(* table that the trash handlers update are modelled as one record set,    *)
(* `files`, the single persistent store of the engine.                     *)
(*                                                                         *)
(* The clock `now` is discrete.  A step of 1 is a short passage of time    *)
(* (at least one millisecond, so two Date.now() values differ); a step of  *)
(* RETENTION is the 60 day recovery period.  The bounds keep the number of *)
(* short steps below RETENTION, so short steps never add up to the period. *)
(* A version label "n.0" is held as the number n.                          *)
(*                                                                         *)
(* Folder items (`folders`) and the items of the TRASH partition (`trash`) *)
(* live in the document table; the folder handlers of the trash manager    *)
(* that go through the relational `folders` table cannot run (see          *)
(* restoreFolder).                                                         *)
(*                                                                         *)
(* Calls that await the store may overlap.  `uploads` holds the createFile *)
(* calls between their lookup and their put, `pending` the listings of     *)
(* links that wait for their query; `listed` is the last listing returned. *)
(* `cache` maps a resource key to the listing cached for it and the time   *)
(* it was cached; in the specifications of the cache a clock step is one   *)
(* minute.                                                                 *)
(***************************************************************************)
EXTENDS Integers, Sequences, FiniteSets, TLC

VARIABLES files, tasks, now, links, linkSeq, cache, calls, stats, resp, folders, trash,
          pending, listed, uploads

vars == <<files, tasks, now, links, linkSeq, cache, calls, stats, resp, folders, trash,
          pending, listed, uploads>>

fileVars == <<files, tasks, uploads>>

listVars == <<pending, listed>>

linkVars == <<links, linkSeq, cache, calls, stats, resp, listVars>>

folderVars == <<folders, trash>>

(***************************************************************************)
(* Bounds                                                                  *)
(***************************************************************************)
MaxFiles == 2

MaxShortTicks == 4

MaxUses == 2

MaxCalls == 4

MaxInFlight == 2

MaxCacheTicks == 6

(***************************************************************************)
(* Program constants and input domains                                     *)
(***************************************************************************)
RETENTION == 60

NoTime == -1

Names == {"plan.pdf"}

ProjectIds == {1}

TaskIds == {}

FolderIds == {}

Users == {"u1"}

(* An absent projectId / taskId is 0 (falsy), an absent folder is "".      *)
UploadScopes == [projectId : ProjectIds \cup {0}, taskId : TaskIds \cup {0}, parentFolderId : FolderIds \cup {""}]

NoResponse == [status |-> 0, resourceId |-> ""]

NoListing == [status |-> 0, key |-> <<>>, data |-> {}, source |-> ""]

(***************************************************************************)
(* Clock                                                                   *)
(***************************************************************************)
ClockInBounds(t) == /\ t % RETENTION <= MaxShortTicks
                    /\ t <= RETENTION + MaxShortTicks

Tick(d) == /\ ClockInBounds(now + d)
           /\ now' = now + d
           /\ UNCHANGED <<fileVars, linkVars, folderVars>>

(***************************************************************************)
(* Helpers                                                                 *)
(***************************************************************************)
RECURSIVE SortedSeq(_)
SortedSeq(S) == IF S = {} THEN <<>>
                ELSE LET m == CHOOSE x \in S : \A y \in S : x <= y
                     IN <<m>> \o SortedSeq(S \ {m})

PutFile(store, id, rec) == [i \in DOMAIN store \cup {id} |-> IF i = id THEN rec ELSE store[i]]

(* Spec-level notions used by the properties. *)
Active(f) == f.deletionStatus \notin {"deleted", "permanently_deleted"}

SameLineage(f, g) == /\ f.originalName = g.originalName
                     /\ f.projectId = g.projectId
                     /\ f.taskId = g.taskId
                     /\ f.parentFolderId = g.parentFolderId

(***************************************************************************)
(* Version manager                                                         *)
(***************************************************************************)
(* AwsStorage.getFilesByOriginalName: scan by originalName, drop records   *)
(* whose deletionStatus is 'deleted', then filter by each scope component  *)
(* that was provided (undefined components are not filtered).              *)
getFilesByOriginalName(originalName, projectId, taskId, parentFolderId) ==
    {i \in DOMAIN files :
        /\ files[i].originalName = originalName
        /\ files[i].deletionStatus # "deleted"
        /\ (projectId # 0 => files[i].projectId = projectId)
        /\ (taskId # 0 => files[i].taskId = taskId)
        /\ (parentFolderId # "" => files[i].parentFolderId = parentFolderId)}

(* handleFileVersioning: the active set the version is computed from. *)
activeFilesFor(originalName, scope) ==
    {i \in getFilesByOriginalName(originalName, scope.projectId, scope.taskId, scope.parentFolderId) :
        files[i].deletionStatus # "deleted"}

(* handleFileVersioning: version number of the new record. *)
nextVersionNumber(activeFiles) == IF activeFiles = {} THEN 1 ELSE Cardinality(activeFiles) + 1

(* createFile: the item written; no deletionStatus attribute is stored. *)
NewFileItem(id, originalName, scope, version, user) ==
    [id |-> id, name |-> originalName, originalName |-> originalName,
     projectId |-> scope.projectId, taskId |-> scope.taskId,
     parentFolderId |-> scope.parentFolderId,
     version |-> version, status |-> "Current", uploadedById |-> user,
     deletionStatus |-> "unset", deletedAt |-> NoTime, deletedBy |-> "",
     scheduledDeletionAt |-> NoTime, createdAt |-> id]

(* POST /api/files/upload -> createFile, one file per call, calls not      *)
(* overlapping: the id is Date.now(), and the awaited scan and put take at *)
(* least one clock step before the call returns.                           *)
Upload(originalName, scope, user) ==
    LET id == now
        activeFiles == activeFilesFor(originalName, scope)
        version == nextVersionNumber(activeFiles)
    IN /\ Cardinality(DOMAIN files) < MaxFiles
       /\ ClockInBounds(now + 1)
       /\ files' = PutFile(files, id, NewFileItem(id, originalName, scope, version, user))
       /\ tasks' = IF activeFiles = {} THEN tasks ELSE Append(tasks, SortedSeq(activeFiles))
       /\ now' = now + 1
       /\ UNCHANGED <<uploads, linkVars, folderVars>>

(* Variant of updateFileStatus that marks every record with the original   *)
(* name of the file, whether or not the upload had looked it up.           *)
updateContainerStatus(store, fileId, status) ==
    IF fileId \in DOMAIN store
    THEN [i \in DOMAIN store |->
            IF store[i].originalName = store[fileId].originalName
            THEN [store[i] EXCEPT !.status = status] ELSE store[i]]
    ELSE store

(* updateFileStatus(existingFile.id, "Superseded"), one awaited update of  *)
(* one pending setImmediate task.                                          *)
updateFileStatus(store, fileId, status) ==
    IF fileId \in DOMAIN store THEN [store EXCEPT ![fileId].status = status] ELSE store

SupersedeStep(k) ==
    /\ k \in 1..Len(tasks)
    /\ LET task == tasks[k]
           rest == Tail(task)
       IN /\ files' = updateFileStatus(files, Head(task), "Superseded")
          /\ tasks' = IF rest = <<>>
                      THEN SubSeq(tasks, 1, k - 1) \o SubSeq(tasks, k + 1, Len(tasks))
                      ELSE [tasks EXCEPT ![k] = rest]
    /\ UNCHANGED <<uploads, now, linkVars, folderVars>>

(* Variant of afterUpdateError in which the first failed update ends the   *)
(* task.                                                                   *)
stopAtUpdateError(task) == <<>>

(* handleFileVersioning: the try/catch inside the for loop of the          *)
(* setImmediate callback; after a failed update the loop goes on with the  *)
(* next file.                                                              *)
afterUpdateError(task) == Tail(task)

(* One awaited updateFileStatus whose UpdateItemCommand throws: the error  *)
(* is logged, not thrown, and nothing is written.                          *)
SupersedeStepFails(k) ==
    /\ k \in 1..Len(tasks)
    /\ LET rest == afterUpdateError(tasks[k])
       IN tasks' = IF rest = <<>>
                   THEN SubSeq(tasks, 1, k - 1) \o SubSeq(tasks, k + 1, Len(tasks))
                   ELSE [tasks EXCEPT ![k] = rest]
    /\ UNCHANGED <<files, uploads, now, linkVars, folderVars>>

(* createFile up to the await of the PutItemCommand, for calls that may    *)
(* overlap: the id is taken, handleFileVersioning looks the active set up, *)
(* computes the version and hands the supersede task to setImmediate.      *)
createFileBegin(originalName, scope, user) ==
    LET activeFiles == activeFilesFor(originalName, scope)
    IN /\ Cardinality(uploads) < MaxInFlight
       /\ ClockInBounds(now + 1)
       /\ uploads' = uploads \cup {[id |-> now, originalName |-> originalName, scope |-> scope,
                                    user |-> user, activeFiles |-> activeFiles,
                                    version |-> nextVersionNumber(activeFiles)]}
       /\ tasks' = IF activeFiles = {} THEN tasks ELSE Append(tasks, SortedSeq(activeFiles))
       /\ now' = now + 1
       /\ UNCHANGED <<files, linkVars, folderVars>>

(* createFileBegin of a call that reads Date.now() in the millisecond in   *)
(* which it was last read: the clock has not moved when the next call      *)
(* takes its id.                                                           *)
createFileBeginSameMillisecond(originalName, scope, user) ==
    LET activeFiles == activeFilesFor(originalName, scope)
        u == [id |-> now, originalName |-> originalName, scope |-> scope,
              user |-> user, activeFiles |-> activeFiles,
              version |-> nextVersionNumber(activeFiles)]
    IN /\ Cardinality(uploads) < MaxInFlight
       /\ Cardinality(DOMAIN files) < MaxFiles
       /\ Len(tasks) < MaxInFlight
       /\ u \notin uploads
       /\ uploads' = uploads \cup {u}
       /\ tasks' = IF activeFiles = {} THEN tasks ELSE Append(tasks, SortedSeq(activeFiles))
       /\ UNCHANGED <<files, now, linkVars, folderVars>>

(* createFile: the PutItemCommand of the new record, and the return. *)
createFilePut(u) ==
    /\ u \in uploads
    /\ files' = PutFile(files, u.id, NewFileItem(u.id, u.originalName, u.scope, u.version, u.user))
    /\ uploads' = uploads \ {u}
    /\ UNCHANGED <<tasks, now, linkVars, folderVars>>

(* createFile when the scan of getFilesByOriginalName throws: the catch    *)
(* returns [], and handleFileVersioning goes on as for a fresh container.  *)
UploadLookupFails(originalName, scope, user) ==
    LET id == now
    IN /\ Cardinality(DOMAIN files) < MaxFiles
       /\ ClockInBounds(now + 1)
       /\ files' = PutFile(files, id, NewFileItem(id, originalName, scope, nextVersionNumber({}), user))
       /\ now' = now + 1
       /\ UNCHANGED <<tasks, uploads, linkVars, folderVars>>

(***************************************************************************)
(* Trash / recovery manager                                                *)
(***************************************************************************)
(* Variant of activeContainerFiles that stamps only the requested record   *)
(* (the single-file fallback of the non-container path).                   *)
onlyRequestedFile(file) == {file.id}

(* moveFileToTrash: the scan by originalName, filtered by                  *)
(* deletionStatus !== 'deleted'.                                           *)
activeContainerFiles(file) ==
    {i \in DOMAIN files :
        /\ files[i].originalName = (IF file.originalName # "" THEN file.originalName ELSE file.name)
        /\ files[i].deletionStatus # "deleted"}

(* moveFileToTrash: the UpdateCommand applied to one container file. *)
StampDeleted(rec, user, at) ==
    [rec EXCEPT !.deletionStatus = "deleted", !.deletedAt = at, !.deletedBy = user,
                !.scheduledDeletionAt = at + RETENTION]

(* moveFileToTrash: HTTP status of the response. *)
moveFileToTrashStatus(fileId) == IF fileId \in DOMAIN files THEN 200 ELSE 404

(* moveFileToTrash: the versionsDeleted field of the response. *)
versionsDeleted(fileId) == Cardinality(activeContainerFiles(files[fileId]))

moveFileToTrash(fileId, user) ==
    /\ files' = IF moveFileToTrashStatus(fileId) = 200
                THEN [i \in DOMAIN files |->
                        IF i \in activeContainerFiles(files[fileId])
                        THEN StampDeleted(files[i], user, now) ELSE files[i]]
                ELSE files
    /\ UNCHANGED <<tasks, uploads, now, linkVars, folderVars>>

(* The file name multer generates for an upload (32 hexadecimal digits).   *)
GeneratedName == "0123456789abcdef0123456789abcdef"

(* Variant of isHashName that takes every display name for a hash. *)
isAnyName(name) == TRUE

(* restoreFile: the /^[a-f0-9]{32}$/ test on the display name. *)
isHashName(name) == name \in {GeneratedName}

(* restoreFile: file.originalName.includes('.') *)
hasProperOriginalName(originalName) == originalName \in {"plan.pdf", "site-plan.dwg"}

(* Variant of RestoredRecord that leaves the purge deadline in the record. *)
RestoredKeepingDeadline(rec) ==
    [rec EXCEPT !.deletionStatus = "active", !.deletedAt = NoTime, !.deletedBy = ""]

(* restoreFile -> AwsStorage.updateFile: the merged record that is put. *)
RestoredRecord(rec) ==
    [rec EXCEPT !.deletionStatus = "active", !.deletedAt = NoTime, !.deletedBy = "",
                !.scheduledDeletionAt = NoTime,
                !.name = IF /\ rec.name # "" /\ rec.originalName # ""
                            /\ rec.name # rec.originalName /\ isHashName(rec.name)
                            /\ hasProperOriginalName(rec.originalName)
                         THEN rec.originalName ELSE rec.name]

(* Variant of restoreFileStatus without the check that the file is in the  *)
(* trash.                                                                  *)
restoreFileStatusUnchecked(fileId) == IF fileId \notin DOMAIN files THEN 404 ELSE 200

(* restoreFile: HTTP status of the response. *)
restoreFileStatus(fileId) ==
    IF fileId \notin DOMAIN files THEN 404
    ELSE IF files[fileId].deletionStatus # "deleted" THEN 400
    ELSE 200

restoreFile(fileId) ==
    /\ files' = IF restoreFileStatus(fileId) = 200
                THEN [files EXCEPT ![fileId] = RestoredRecord(files[fileId])]
                ELSE files
    /\ UNCHANGED <<tasks, uploads, now, linkVars, folderVars>>

(* permanentlyDeleteFile: HTTP status of the response. *)
permanentlyDeleteFileStatus(fileId) ==
    IF fileId \in DOMAIN files /\ files[fileId].deletionStatus = "deleted" THEN 200 ELSE 404

(* permanentlyDeleteFile: DELETE /api/files/:fileId/permanent. *)
permanentlyDeleteFile(fileId) ==
    /\ files' = IF permanentlyDeleteFileStatus(fileId) = 200
                THEN [files EXCEPT ![fileId].deletionStatus = "permanently_deleted"]
                ELSE files
    /\ UNCHANGED <<tasks, uploads, now, linkVars, folderVars>>

(* Variant of expiredFiles with the deadline compared by <= instead of <.  *)
expiredFilesInclusive(t) ==
    {i \in DOMAIN files : files[i].deletionStatus = "deleted" /\ files[i].scheduledDeletionAt <= t}

(* cleanupExpiredItems: the rows matched by                                *)
(* deletionStatus = 'deleted' AND scheduledDeletionAt < now.               *)
expiredFiles(t) ==
    {i \in DOMAIN files : files[i].deletionStatus = "deleted" /\ files[i].scheduledDeletionAt < t}

(* cleanupExpiredItems: the daily scheduled sweep.  Its UPDATE of the      *)
(* files runs; the UPDATE of the folders that follows names `folders`,     *)
(* which the module does not define, so it throws before it reaches the    *)
(* database and no folder item is ever changed by the sweep.               *)
cleanupExpiredItems ==
    /\ files' = [i \in DOMAIN files |->
                   IF i \in expiredFiles(now)
                   THEN [files[i] EXCEPT !.deletionStatus = "permanently_deleted"]
                   ELSE files[i]]
    /\ UNCHANGED <<tasks, uploads, now, linkVars, folderVars>>

(* Variant of purgeExpired without the deletionStatus = 'deleted' filter. *)
purgeExpiredAnyStatus(store, t) ==
    [i \in DOMAIN store |->
        IF store[i].scheduledDeletionAt < t
        THEN [store[i] EXCEPT !.deletionStatus = "permanently_deleted"]
        ELSE store[i]]

(* cleanupExpiredItems as one UPDATE statement over a table: rows with     *)
(* deletionStatus = 'deleted' and scheduledDeletionAt < t are set to       *)
(* permanently_deleted, every other row is left as it is.                  *)
purgeExpired(store, t) ==
    [i \in DOMAIN store |->
        IF store[i].deletionStatus = "deleted" /\ store[i].scheduledDeletionAt < t
        THEN [store[i] EXCEPT !.deletionStatus = "permanently_deleted"]
        ELSE store[i]]

(* A run of cleanupExpiredItems that overlaps another one: it took its     *)
(* `now` at time t, and its UPDATE statement executes at the current time. *)
overlappingCleanup(t) ==
    /\ t <= now
    /\ files' = purgeExpired(files, t)
    /\ UNCHANGED <<tasks, uploads, now, linkVars, folderVars>>

(***************************************************************************)
(* Folders                                                                 *)
(***************************************************************************)
(* Folder ids handed out by generateId (Date.now() followed by random      *)
(* characters).  An id is atomic: it is no part of another folder id, of a *)
(* key prefix or of the numeric id in the sort key FILE#<id> of a file.    *)
FolderPool == {"d1", "d2"}

FolderNames == {"Drawings"}

(* Ids some stored item still refers to. *)
usedFolderIds ==
    DOMAIN folders \cup DOMAIN trash
        \cup {files[i].parentFolderId : i \in DOMAIN files}
        \cup {folders[d].parentId : d \in DOMAIN folders}

(* createFolder: the sort key of the stored item. *)
folderSK(rec) == IF rec.parentId = "" THEN <<"FOLDER#", rec.id>> ELSE <<"SUBFOLDER#", rec.id>>

(* AwsStorage.createFolder; an absent parentId is "". *)
createFolder(name, parentId, user) ==
    \E folderId \in FolderPool \ usedFolderIds :
        /\ folders' = PutFile(folders, folderId,
                              [id |-> folderId, name |-> name, parentId |-> parentId,
                               createdBy |-> user])
        /\ UNCHANGED <<fileVars, now, linkVars, trash>>

(* contains(SK, :folderId) *)
skContains(sk, folderId) == sk[2] = folderId

(* moveFolderToTrash: the name found among the root folders, or the        *)
(* fallback `Folder_<id>`.                                                 *)
trashFolderName(folderId) ==
    IF folderId \in DOMAIN folders /\ folders[folderId].parentId = ""
    THEN folders[folderId].name ELSE "Folder_<id>"

(* moveFolderToTrash: the item put in the TRASH partition. *)
trashItem(folderId, user, at) ==
    [id |-> folderId, name |-> trashFolderName(folderId), type |-> "folder",
     deletionStatus |-> "deleted", deletedAt |-> at, deletedBy |-> user,
     scheduledDeletionAt |-> at + RETENTION]

(* moveFolderToTrash: the folder items the scan                            *)
(* contains(SK, :folderId) AND attribute_exists(name) returns.  No file    *)
(* item matches: the sort key of a file holds its own numeric id.          *)
scannedFolders(folderId) == {d \in DOMAIN folders : skContains(folderSK(folders[d]), folderId)}

RemoveKeys(store, ids) == [i \in DOMAIN store \ ids |-> store[i]]

(* DELETE /api/folders/:id/trash.  The TRASH item has the sort key         *)
(* FOLDER#<id> and a name, so the scan that follows the put returns it     *)
(* too when the (eventually consistent) scan already sees it, and the loop *)
(* deletes it with the folder item.  The response is 200 in either case.   *)
moveFolderToTrash(folderId, user, seen) ==
    /\ folders' = RemoveKeys(folders, scannedFolders(folderId))
    /\ trash' = IF seen
                THEN RemoveKeys(trash, {folderId})
                ELSE PutFile(trash, folderId, trashItem(folderId, user, now))
    /\ UNCHANGED <<fileVars, now, linkVars>>

(* moveFolderToTrash when the scan throws after the put: the handler       *)
(* answers 500 and the run stops part-way.                                 *)
moveFolderToTrashScanFails(folderId, user) ==
    /\ trash' = PutFile(trash, folderId, trashItem(folderId, user, now))
    /\ UNCHANGED <<fileVars, now, linkVars, folders>>

(* restoreFolder: `folders` is not defined in the module (only `files` is  *)
(* imported), so evaluating db.update(folders) throws before any statement *)
(* reaches the database; the handler catches it and answers 500.           *)
restoreFolderStatus(folderId) == 500

restoreFolder(folderId) == UNCHANGED vars

(***************************************************************************)
(* Specifications of the file lifecycle                                    *)
(***************************************************************************)
(* Ids a request can name: every stored file and one id no file has. *)
MissingId == 0

FileIds == DOMAIN files \cup {MissingId}

Init == /\ files = <<>>
        /\ tasks = <<>>
        /\ now = 1
        /\ links = <<>>
        /\ linkSeq = 0
        /\ cache = <<>>
        /\ calls = {}
        /\ stats = [started |-> 0, succeeded |-> <<>>, peak |-> 0]
        /\ resp = NoResponse
        /\ folders = <<>>
        /\ trash = <<>>
        /\ pending = {}
        /\ listed = NoListing
        /\ uploads = {}

UploadStep == \E name \in Names, scope \in UploadScopes, user \in Users : Upload(name, scope, user)

BackgroundStep == \E k \in 1..Len(tasks) : SupersedeStep(k)

ClockStep == \E d \in {1, RETENTION} : Tick(d)

TrashStep == \E fileId \in FileIds, user \in Users : moveFileToTrash(fileId, user)

RestoreStep == \E fileId \in FileIds : restoreFile(fileId)

PermanentDeleteStep == \E fileId \in FileIds : permanentlyDeleteFile(fileId)

(* Every file operation, the explicit permanent delete included. *)
Next == \/ UploadStep
        \/ BackgroundStep
        \/ ClockStep
        \/ TrashStep
        \/ RestoreStep
        \/ PermanentDeleteStep
        \/ cleanupExpiredItems

Spec == Init /\ [][Next]_vars

(* uploadNewVersion, softDeleteFileContainer, restoreFile, runPurgeSweep. *)
CoreNext == \/ UploadStep
            \/ BackgroundStep
            \/ ClockStep
            \/ TrashStep
            \/ RestoreStep
            \/ cleanupExpiredItems

CoreSpec == Init /\ [][CoreNext]_vars

(* Uploads that always name their project, so that the lookup filters on   *)
(* the scope of the new file, with the soft-delete and the purge sweep.    *)
ScopedUploadStep ==
    \E name \in Names, scope \in {sc \in UploadScopes : sc.projectId # 0}, user \in Users :
        Upload(name, scope, user)

ScopedNext == \/ ScopedUploadStep
              \/ BackgroundStep
              \/ ClockStep
              \/ TrashStep
              \/ cleanupExpiredItems

ScopedSpec == Init /\ [][ScopedNext]_vars

(* Uploads only, with their background supersede tasks. *)
UploadNext == \/ UploadStep
              \/ BackgroundStep
              \/ ClockStep

UploadSpec == Init /\ [][UploadNext]_vars

(* Uploads to one lineage that may overlap, with supersede tasks whose     *)
(* updates may fail.                                                       *)
CreateFileBeginStep ==
    \E name \in Names, scope \in {sc \in UploadScopes : sc.projectId # 0}, user \in Users :
        createFileBegin(name, scope, user)

CreateFilePutStep == \E u \in uploads : createFilePut(u)

BackgroundFailStep == \E k \in 1..Len(tasks) : SupersedeStepFails(k)

VersionNext == \/ CreateFileBeginStep
               \/ CreateFilePutStep
               \/ BackgroundStep
               \/ BackgroundFailStep
               \/ ClockStep

VersionSpec == Init /\ [][VersionNext]_vars

(* Uploads of two files whose createFile calls may read the clock in the   *)
(* same millisecond.                                                       *)
UploadNames == {"plan.pdf", "site-plan.dwg"}

SameMillisecondBeginStep ==
    \E name \in UploadNames, scope \in {sc \in UploadScopes : sc.projectId # 0}, user \in Users :
        createFileBeginSameMillisecond(name, scope, user)

MillisecondStep == Tick(1)

SameMillisecondNext == \/ SameMillisecondBeginStep
                       \/ CreateFilePutStep
                       \/ BackgroundStep
                       \/ MillisecondStep

SameMillisecondSpec == Init /\ [][SameMillisecondNext]_vars

(* restoreFile over stored records whose display name is the original     *)
(* name, another name, or the generated name an earlier upload left, and   *)
(* whose original name is absent, with or without an extension.            *)
DisplayNames == {GeneratedName, "plan.pdf", "README"}

OriginalNames == {"", "site-plan.dwg", "README"}

StoredRecords ==
    {[NewFileItem(1, originalName, scope, 1, user) EXCEPT !.name = name] :
        name \in DisplayNames, originalName \in OriginalNames, scope \in UploadScopes,
        user \in Users}

RepairInit == /\ files \in {[i \in {1} |-> rec] : rec \in StoredRecords}
              /\ tasks = <<>>
              /\ now = 2
              /\ links = <<>>
              /\ linkSeq = 0
              /\ cache = <<>>
              /\ calls = {}
              /\ stats = [started |-> 0, succeeded |-> <<>>, peak |-> 0]
              /\ resp = NoResponse
              /\ folders = <<>>
              /\ trash = <<>>
              /\ pending = {}
              /\ listed = NoListing
              /\ uploads = {}

RepairNext == \/ TrashStep
              \/ RestoreStep
              \/ ClockStep
              \/ cleanupExpiredItems

RepairSpec == RepairInit /\ [][RepairNext]_vars

(* Uploads with and without a project, three or more of them. *)
CreateFileBeginAnyScopeStep ==
    \E name \in Names, scope \in UploadScopes, user \in Users : createFileBegin(name, scope, user)

ScopeMixNext == \/ CreateFileBeginAnyScopeStep
                \/ CreateFilePutStep
                \/ BackgroundStep

ScopeMixSpec == Init /\ [][ScopeMixNext]_vars

(* Uploads whose lookup of the active set may fail. *)
UploadLookupFailsStep ==
    \E name \in Names, scope \in UploadScopes, user \in Users : UploadLookupFails(name, scope, user)

LookupFailNext == \/ UploadStep
                  \/ UploadLookupFailsStep
                  \/ BackgroundStep
                  \/ ClockStep

LookupFailSpec == Init /\ [][LookupFailNext]_vars

(* The purge sweep, with runs that overlap.  A run took its `now` at one   *)
(* of the clock values up to the present.                                  *)
SweepTimes == {t \in 1..now : ClockInBounds(t)}

OverlappingCleanupStep == \E t \in SweepTimes : overlappingCleanup(t)

SweepNext == \/ UploadStep
             \/ BackgroundStep
             \/ ClockStep
             \/ TrashStep
             \/ RestoreStep
             \/ cleanupExpiredItems
             \/ OverlappingCleanupStep

SweepSpec == Init /\ [][SweepNext]_vars

(* Folders with files in them. *)
FolderRequestIds == DOMAIN folders \cup DOMAIN trash

(* The recovery period passes. *)
RetentionStep == Tick(RETENTION)

CreateFolderStep ==
    \E name \in FolderNames, parentId \in DOMAIN folders \cup {""}, user \in Users :
        createFolder(name, parentId, user)

FolderUploadStep ==
    \E name \in Names, projectId \in ProjectIds, parentFolderId \in DOMAIN folders, user \in Users :
        Upload(name, [projectId |-> projectId, taskId |-> 0, parentFolderId |-> parentFolderId], user)

FolderTrashStep ==
    \E folderId \in FolderRequestIds, user \in Users, seen \in BOOLEAN :
        moveFolderToTrash(folderId, user, seen)

FolderTrashScanFailsStep ==
    \E folderId \in FolderRequestIds, user \in Users : moveFolderToTrashScanFails(folderId, user)

RestoreFolderStep == \E folderId \in FolderRequestIds : restoreFolder(folderId)

FolderNext == \/ CreateFolderStep
              \/ FolderUploadStep
              \/ BackgroundStep
              \/ RetentionStep
              \/ TrashStep
              \/ FolderTrashStep
              \/ FolderTrashScanFailsStep
              \/ RestoreStep
              \/ RestoreFolderStep
              \/ cleanupExpiredItems

FolderSpec == Init /\ [][FolderNext]_vars

(* restoreFile and restoreFolder, over files in folders that are active,   *)
(* in the trash or purged.                                                 *)
RestoreNext == \/ CreateFolderStep
               \/ FolderUploadStep
               \/ BackgroundStep
               \/ RetentionStep
               \/ TrashStep
               \/ RestoreStep
               \/ RestoreFolderStep
               \/ cleanupExpiredItems

RestoreSpec == Init /\ [][RestoreNext]_vars

(* The daily setInterval keeps calling cleanupExpiredItems. *)
FolderFairSpec == FolderSpec /\ WF_vars(cleanupExpiredItems)

(***************************************************************************)
(* Shareable link manager                                                  *)
(***************************************************************************)
(* Request inputs.  An absent password is "", an absent expiresAt is       *)
(* NoTime, an absent (null) maxUses is 0.                                  *)
ResourceTypes == {"", "file", "FOLDER", "video"}

ResourceIds == {"", "10"}

LinkTypes == {"view", "download"}

Passwords == {"", "pw"}

SuppliedPasswords == {"", "pw", "guess"}

ExpiryTimes == {NoTime, 2}

MaxUsesInputs == 0..MaxUses

Absent == -1

(* processUpdateShareableLink: the request bodies, field by field. *)
UpdateBodies == [maxUses : {Absent} \cup (1..MaxUses),
                 currentUses : {Absent} \cup (0..MaxUses),
                 isActive : {"absent", "true", "false"}]

(* Link ids handed out by generateId.  No link operation reads or writes   *)
(* the record of another link, so one id is enough for every property     *)
(* about a single link.                                                    *)
LinkPool == {1}

MissingLinkId == 0

LinkIds == DOMAIN links \cup {MissingLinkId}

PutLink(store, id, item) == [i \in DOMAIN store \cup {id} |-> IF i = id THEN item ELSE store[i]]

(* String.prototype.toLowerCase and toUpperCase, on the resource types.     *)
toLowerCase(s) == CASE s = "FILE" -> "file" [] s = "FOLDER" -> "folder" [] s = "VIDEO" -> "video"
                    [] OTHER -> s

toUpperCase(s) == CASE s = "file" -> "FILE" [] s = "folder" -> "FOLDER" [] s = "video" -> "VIDEO"
                    [] OTHER -> s

(* String(resourceType || 'file').toLowerCase(): an absent type is 'file'. *)
safeResourceType(resourceType) == toLowerCase(IF resourceType = "" THEN "file" ELSE resourceType)

(* getCacheKey: `${resourceType}:${resourceId}`, called with the type in    *)
(* upper case.                                                             *)
getCacheKey(resourceType, resourceId) == <<resourceType, resourceId>>

(* shareableLinksCache.delete(cacheKey) *)
cacheDelete(c, key) == [k \in DOMAIN c \ {key} |-> c[k]]

(* createShareableLink: the sanitized link that is put. *)
sanitizedLink(id, resourceType, resourceId, linkType, password, expiresAt, maxUses) ==
    [id |-> id, resourceType |-> safeResourceType(resourceType), resourceId |-> resourceId,
     linkType |-> linkType, password |-> password, expiresAt |-> expiresAt,
     maxUses |-> maxUses, currentUses |-> 0, isActive |-> TRUE]

(* Variant of createLinkStatus without the check of the resource type. *)
createLinkStatusAnyType(resourceType, resourceId) == IF resourceId = "" THEN 400 ELSE 201

(* processCreateShareableLink and createShareableLink: the validation,     *)
(* which precedes the PutCommand.                                          *)
createLinkStatus(resourceType, resourceId) ==
    IF resourceId = "" THEN 400
    ELSE IF safeResourceType(resourceType) \notin {"file", "folder"} THEN 500
    ELSE 201

createShareableLink(resourceType, resourceId, linkType, password, expiresAt, maxUses) ==
    LET id == linkSeq + 1
        status == createLinkStatus(resourceType, resourceId)
    IN /\ status = 201 => id \in LinkPool
       /\ IF status = 201
          THEN /\ links' = PutLink(links, id, sanitizedLink(id, resourceType, resourceId, linkType,
                                                            password, expiresAt, maxUses))
               /\ linkSeq' = id
               /\ cache' = cacheDelete(cache, getCacheKey(toUpperCase(safeResourceType(resourceType)),
                                                           resourceId))
               /\ resp' = [status |-> 201, resourceId |-> resourceId]
          ELSE /\ resp' = [status |-> status, resourceId |-> ""]
               /\ UNCHANGED <<links, linkSeq, cache>>
       /\ UNCHANGED <<fileVars, folderVars, now, calls, stats, listVars>>

(* getShareableLink returns null for an absent item and for an item        *)
(* without a resourceId (the item an update of an unknown key leaves).     *)
linkFound(store, id) == id \in DOMAIN store /\ store[id].resourceId # ""

(* updateShareableLink: UpdateCommand SET of the defined fields; the       *)
(* command creates the item when the key does not exist.                   *)
stubItem(id) ==
    [id |-> id, resourceType |-> "", resourceId |-> "", linkType |-> "",
     password |-> "", expiresAt |-> NoTime, maxUses |-> 0, currentUses |-> 0, isActive |-> TRUE]

applyUpdates(item, body) ==
    [item EXCEPT !.maxUses = IF body.maxUses # Absent THEN body.maxUses ELSE @,
                 !.currentUses = IF body.currentUses # Absent THEN body.currentUses ELSE @,
                 !.isActive = IF body.isActive = "absent" THEN @ ELSE body.isActive = "true"]

updateShareableLink(store, id, body) ==
    PutLink(store, id, applyUpdates(IF id \in DOMAIN store THEN store[id] ELSE stubItem(id), body))

(* PATCH /api/shareable-links/:linkId *)
processUpdateShareableLink(id, body) ==
    /\ links' = updateShareableLink(links, id, body)
    /\ cache' = <<>>
    /\ resp' = IF linkFound(links', id)
               THEN [status |-> 200, resourceId |-> links'[id].resourceId]
               ELSE [status |-> 404, resourceId |-> ""]
    /\ UNCHANGED <<fileVars, folderVars, now, linkSeq, calls, stats, listVars>>

(* Variant of usageLimitReached that lets the use at the cap through. *)
usageLimitExceeded(link) == link.maxUses # 0 /\ link.currentUses > link.maxUses

(* The usage check of both resolution routes. *)
usageLimitReached(link) == link.maxUses # 0 /\ link.currentUses >= link.maxUses

(* The checks of GET /api/shared-link/:linkId ("api") and GET /s/:linkId   *)
(* ("browser"), in order, as the HTTP status they end in.                  *)
resolveStatus(entry, id, password) ==
    IF ~linkFound(links, id) \/ ~links[id].isActive THEN 404
    ELSE IF links[id].expiresAt # NoTime /\ links[id].expiresAt < now THEN 410
    ELSE IF usageLimitReached(links[id]) THEN 410
    ELSE IF entry = "api" /\ links[id].password # "" /\ password # links[id].password THEN 401
    ELSE IF entry = "browser" /\ links[id].linkType = "download" /\ links[id].resourceType = "file"
    THEN 302
    ELSE 200

(* Variant of Succeeds that counts a use before the password is checked. *)
SucceedsOrRefused(status) == status \in {200, 302, 401}

Succeeds(status) == status \in {200, 302}

BodyCurrentUses(n) == [maxUses |-> Absent, currentUses |-> n, isActive |-> "absent"]

(* One whole resolution, not overlapping any other call. *)
resolveLink(entry, id, password) ==
    LET status == resolveStatus(entry, id, password)
    IN /\ IF Succeeds(status)
          THEN /\ links[id].currentUses <= MaxUses
               /\ links' = updateShareableLink(links, id, BodyCurrentUses(links[id].currentUses + 1))
               /\ cache' = <<>>
               /\ resp' = [status |-> status, resourceId |-> links[id].resourceId]
          ELSE /\ resp' = [status |-> status, resourceId |-> ""]
               /\ UNCHANGED <<links, cache>>
       /\ UNCHANGED <<fileVars, folderVars, now, linkSeq, calls, stats, listVars>>

(* Observation: successful resolutions per link, calls started, and the    *)
(* largest number of calls that were in flight together.                   *)
CountSuccess(counts, id) ==
    [i \in DOMAIN counts \cup {id} |->
        (IF i \in DOMAIN counts THEN counts[i] ELSE 0) + (IF i = id THEN 1 ELSE 0)]

(* Overlapping resolutions: the read and the checks of one call ... *)
resolveBegin(entry, id, password) ==
    LET status == resolveStatus(entry, id, password)
        inFlight == Cardinality(calls) + 1
    IN /\ stats.started < MaxCalls
       /\ Cardinality(calls) < MaxInFlight
       /\ calls' = IF Succeeds(status)
                   THEN calls \cup {[call |-> stats.started + 1, entry |-> entry, linkId |-> id,
                                     status |-> status, resourceId |-> links[id].resourceId,
                                     currentUses |-> links[id].currentUses]}
                   ELSE calls
       /\ stats' = [stats EXCEPT !.started = @ + 1,
                                 !.peak = IF inFlight > @ THEN inFlight ELSE @]
       /\ resp' = IF Succeeds(status) THEN resp
                  ELSE [status |-> status, resourceId |-> ""]
       /\ UNCHANGED <<fileVars, folderVars, now, links, linkSeq, cache, listVars>>

(* ... and, after the await, its write of the count it read plus one. *)
resolveWrite(c) ==
    /\ c \in calls
    /\ links' = updateShareableLink(links, c.linkId, BodyCurrentUses(c.currentUses + 1))
    /\ cache' = <<>>
    /\ calls' = calls \ {c}
    /\ stats' = [stats EXCEPT !.succeeded = CountSuccess(@, c.linkId)]
    /\ resp' = [status |-> c.status, resourceId |-> c.resourceId]
    /\ UNCHANGED <<fileVars, folderVars, now, linkSeq, listVars>>

(* The link cache.  In the specifications of the cache the clock counts    *)
(* minutes; CACHE_TTL = 5 * 60 * 1000 ms.                                  *)
CACHE_TTL == 5

(* Variant of isValidCacheEntry that still serves an entry of age TTL. *)
isValidCacheEntryInclusive(entry, t) == t - entry.timestamp <= CACHE_TTL

(* isValidCacheEntry: Date.now() - entry.timestamp < this.CACHE_TTL *)
isValidCacheEntry(entry, t) == t - entry.timestamp < CACHE_TTL

(* The QueryCommand on GSI1 with GSI1PK = `${TYPE}#${resourceId}`, the key *)
(* createShareableLink writes; transformShareableLinkItem keeps the fields *)
(* of the model.  An item that an update of an unknown key left has no     *)
(* GSI1PK.                                                                 *)
queryByResource(store, key) ==
    {store[i] : i \in {j \in DOMAIN store : /\ store[j].resourceId # ""
                                            /\ getCacheKey(toUpperCase(store[j].resourceType),
                                                           store[j].resourceId) = key}}

(* shareableLinksCache.set(cacheKey, { data, timestamp: Date.now() }) *)
cacheSet(c, key, data, t) ==
    [k \in DOMAIN c \cup {key} |-> IF k = key THEN [data |-> data, timestamp |-> t] ELSE c[k]]

(* processGetShareableLinks: the validation of the route parameters. *)
getShareableLinksStatus(resourceType, resourceId) ==
    IF resourceId = "" THEN 400
    ELSE IF safeResourceType(resourceType) \notin {"file", "folder"} THEN 400
    ELSE 200

(* GET /api/shareable-links/:resourceType/:resourceId up to the await of   *)
(* the query: a valid cache entry is returned at once, otherwise the query *)
(* is sent and the call waits for its result.                              *)
processGetShareableLinks(resourceType, resourceId) ==
    LET status == getShareableLinksStatus(resourceType, resourceId)
        key == getCacheKey(toUpperCase(toLowerCase(safeResourceType(resourceType))), resourceId)
    IN /\ IF status # 200
          THEN /\ listed' = [status |-> status, key |-> <<>>, data |-> {}, source |-> ""]
               /\ UNCHANGED pending
          ELSE IF key \in DOMAIN cache /\ isValidCacheEntry(cache[key], now)
          THEN /\ listed' = [status |-> 200, key |-> key, data |-> cache[key].data,
                              source |-> "cache"]
               /\ UNCHANGED pending
          ELSE /\ Cardinality(pending) < MaxInFlight
               /\ pending' = pending \cup {[key |-> key, data |-> queryByResource(links, key)]}
               /\ UNCHANGED listed
       /\ UNCHANGED <<fileVars, folderVars, now, links, linkSeq, cache, calls, stats, resp>>

(* getShareableLinksForResource after the await: the result is cached with *)
(* the current time and returned.                                          *)
getShareableLinksForResource(c) ==
    /\ c \in pending
    /\ cache' = cacheSet(cache, c.key, c.data, now)
    /\ listed' = [status |-> 200, key |-> c.key, data |-> c.data, source |-> "store"]
    /\ pending' = pending \ {c}
    /\ UNCHANGED <<fileVars, folderVars, now, links, linkSeq, calls, stats, resp>>

(* getShareableLinksForResource when the query throws: [] is returned and  *)
(* the cache is left as it is.                                             *)
getShareableLinksForResourceFails(c) ==
    /\ c \in pending
    /\ listed' = [status |-> 200, key |-> c.key, data |-> {}, source |-> "error"]
    /\ pending' = pending \ {c}
    /\ UNCHANGED <<fileVars, folderVars, now, links, linkSeq, cache, calls, stats, resp>>

(* DELETE /api/shareable-links/:linkId -> deleteShareableLink: the         *)
(* DeleteCommand, then shareableLinksCache.clear().                        *)
processDeleteShareableLink(id) ==
    /\ links' = [i \in DOMAIN links \ {id} |-> links[i]]
    /\ cache' = <<>>
    /\ resp' = [status |-> 204, resourceId |-> ""]
    /\ UNCHANGED <<fileVars, folderVars, now, linkSeq, calls, stats, listVars>>

(***************************************************************************)
(* Specifications of the link manager                                      *)
(***************************************************************************)
CreateLinkStep ==
    \E resourceType \in ResourceTypes, resourceId \in ResourceIds, linkType \in LinkTypes,
       password \in Passwords, expiresAt \in ExpiryTimes, maxUses \in MaxUsesInputs :
        createShareableLink(resourceType, resourceId, linkType, password, expiresAt, maxUses)

UpdateLinkStep == \E id \in DOMAIN links, body \in UpdateBodies : processUpdateShareableLink(id, body)

ResolveApiStep == \E id \in LinkIds, password \in SuppliedPasswords : resolveLink("api", id, password)

ResolveBrowserStep == \E id \in LinkIds : resolveLink("browser", id, "")

(* The clock matters to a link only until the last expiry time has passed. *)
LinkClockStep == (\E t \in ExpiryTimes : now <= t) /\ Tick(1)

(* createLink, resolveLink and updateLink, one call at a time. *)
LinkNext == \/ CreateLinkStep
            \/ UpdateLinkStep
            \/ ResolveApiStep
            \/ ResolveBrowserStep
            \/ LinkClockStep

LinkSpec == Init /\ [][LinkNext]_vars

(* The link cache: createLink, updateLink, deleteLink and listings that    *)
(* may be waiting for their query while another call runs.                 *)
CacheCreateStep ==
    \E resourceType \in ResourceTypes, resourceId \in ResourceIds :
        createShareableLink(resourceType, resourceId, "view", "", NoTime, 0)

CacheUpdateBodies == {b \in UpdateBodies : b.maxUses = Absent /\ b.currentUses = Absent}

CacheUpdateStep ==
    \E id \in DOMAIN links, body \in CacheUpdateBodies : processUpdateShareableLink(id, body)

DeleteLinkStep == \E id \in LinkIds : processDeleteShareableLink(id)

ListBeginStep ==
    \E resourceType \in ResourceTypes, resourceId \in ResourceIds :
        processGetShareableLinks(resourceType, resourceId)

ListReturnStep == \E c \in pending : getShareableLinksForResource(c)

ListFailStep == \E c \in pending : getShareableLinksForResourceFails(c)

CacheClockStep == /\ now < MaxCacheTicks
                  /\ now' = now + 1
                  /\ UNCHANGED <<fileVars, linkVars, folderVars>>

CacheNext == \/ CacheCreateStep
             \/ CacheUpdateStep
             \/ DeleteLinkStep
             \/ ListBeginStep
             \/ ListReturnStep
             \/ ListFailStep
             \/ CacheClockStep

CacheSpec == Init /\ [][CacheNext]_vars

(* resolveLink on links that are listed and cached in between, the calls   *)
(* not overlapping.                                                        *)
FileLinkCreateStep ==
    \E linkType \in LinkTypes, password \in Passwords, expiresAt \in ExpiryTimes,
       maxUses \in MaxUsesInputs :
        createShareableLink("file", "10", linkType, password, expiresAt, maxUses)

FileLinkListStep == processGetShareableLinks("file", "10")

(* One call at a time: no call starts while a listing waits for its query. *)
NoListPending == pending = {}

ResolveListNext == \/ (NoListPending /\ FileLinkCreateStep)
                   \/ (NoListPending /\ CacheUpdateStep)
                   \/ (NoListPending /\ ResolveApiStep)
                   \/ (NoListPending /\ ResolveBrowserStep)
                   \/ (NoListPending /\ LinkClockStep)
                   \/ (NoListPending /\ FileLinkListStep)
                   \/ ListReturnStep

ResolveListSpec == Init /\ [][ResolveListNext]_vars

ResolveBeginStep ==
    \E entry \in {"api", "browser"}, id \in LinkIds, password \in SuppliedPasswords :
        resolveBegin(entry, id, password)

ResolveWriteStep == \E c \in calls : resolveWrite(c)

(* createLink, then resolveLink calls that may overlap. *)
RaceNext == \/ CreateLinkStep
            \/ ResolveBeginStep
            \/ ResolveWriteStep

RaceSpec == Init /\ [][RaceNext]_vars

(* deleteLink while resolutions and listings of the link are in flight.    *)
(* A resolution may name any id that was handed out, deleted or not.       *)
PlainLinkCreateStep == createShareableLink("file", "10", "view", "", NoTime, 0)

TokenResolveBeginStep ==
    \E entry \in {"api", "browser"}, id \in LinkPool : resolveBegin(entry, id, "")

DeleteRaceNext == \/ PlainLinkCreateStep
                  \/ TokenResolveBeginStep
                  \/ ResolveWriteStep
                  \/ DeleteLinkStep
                  \/ FileLinkListStep
                  \/ ListReturnStep

DeleteRaceSpec == Init /\ [][DeleteRaceNext]_vars

(***************************************************************************)
(* Properties                                                              *)
(***************************************************************************)
LineageOf(f) == {g \in DOMAIN files : SameLineage(files[f], files[g])}

ActiveMembers(f) == {g \in LineageOf(f) : Active(files[g])}

CurrentMembers(f) == {g \in ActiveMembers(f) : files[g].status = "Current"}

C3_SingleCurrent ==
    tasks = <<>> => \A f \in DOMAIN files :
                       Active(files[f]) => Cardinality(CurrentMembers(f)) = 1

(* C4: with no supersede task pending, each lineage has at most one active *)
(* Current file and every other active file of it is Superseded.           *)
C4_AtMostOneCurrent ==
    tasks = <<>> => \A f \in DOMAIN files :
                       /\ Cardinality(CurrentMembers(f)) <= 1
                       /\ \A g \in ActiveMembers(f) \ CurrentMembers(f) :
                             files[g].status = "Superseded"

Entries == {"api", "browser"}

LimitsFail(id) ==
    \/ ~linkFound(links, id)
    \/ ~links[id].isActive
    \/ (links[id].expiresAt # NoTime /\ now > links[id].expiresAt)
    \/ (links[id].maxUses # 0 /\ links[id].currentUses >= links[id].maxUses)

PasswordMismatch(id, password) ==
    linkFound(links, id) /\ links[id].password # "" /\ password # links[id].password

(* C7 as stated: a resolution that does not overlap another fails if the   *)
(* link is missing or inactive, expired, or at its usage cap; in every     *)
(* other case it succeeds and the stored currentUses grows by exactly one. *)
C7_LinkBounds ==
    [][\A entry \in Entries, id \in LinkIds, password \in SuppliedPasswords :
          resolveLink(entry, id, password)
          => IF LimitsFail(id)
             THEN ~Succeeds(resp'.status)
             ELSE /\ Succeeds(resp'.status)
                  /\ links'[id].currentUses = links[id].currentUses + 1]_vars

(* C7 amended: as C7, with one more failing case: at the api route, a      *)
(* password is set and the supplied password differs from it.              *)
C7_LinkBoundsWithPassword ==
    [][\A entry \in Entries, id \in LinkIds, password \in SuppliedPasswords :
          resolveLink(entry, id, password)
          => IF LimitsFail(id) \/ (entry = "api" /\ PasswordMismatch(id, password))
             THEN /\ ~Succeeds(resp'.status)
                  /\ links' = links
             ELSE /\ Succeeds(resp'.status)
                  /\ links'[id].currentUses = links[id].currentUses + 1]_vars

(* C7 witness: a link with maxUses 1 was resolved once, and the next       *)
(* resolution was refused with 410.                                        *)
C7_Witness ==
    \E id \in DOMAIN links :
        /\ linkFound(links, id) /\ links[id].isActive /\ links[id].expiresAt = NoTime
        /\ links[id].maxUses = 1 /\ links[id].currentUses = 1
        /\ resp.status = 410

(* C8: every link whose maxUses is set has currentUses <= maxUses. *)
C8_UsesWithinCap ==
    \A id \in DOMAIN links :
        (linkFound(links, id) /\ links[id].maxUses # 0)
        => links[id].currentUses <= links[id].maxUses

(* C9: for a link with maxUses = m, the successful resolutions exceed m by *)
(* at most c - 1, c being the largest number of calls in flight together.  *)
C9_RaceMargin ==
    \A id \in DOMAIN stats.succeeded :
        links[id].maxUses # 0
        => stats.succeeded[id] <= links[id].maxUses + stats.peak - 1

(* C10: at every resolution route, a link with a password set is refused   *)
(* when the supplied password is absent or different, the count is not     *)
(* incremented and no resource reference is returned.                      *)
C10_PasswordProtection ==
    [][\A entry \in Entries, id \in LinkIds, password \in SuppliedPasswords :
          (resolveLink(entry, id, password) /\ PasswordMismatch(id, password))
          => /\ ~Succeeds(resp'.status)
             /\ resp'.resourceId = ""
             /\ links'[id].currentUses = links[id].currentUses]_vars

(* Folder d and the folders below it, at any depth. *)
RECURSIVE FoldersBelow(_, _)
FoldersBelow(S, depth) ==
    IF depth = 0 THEN S
    ELSE FoldersBelow(S \cup {d \in DOMAIN folders : folders[d].parentId \in S}, depth - 1)

FilesBelow(d) ==
    {i \in DOMAIN files : files[i].parentFolderId \in FoldersBelow({d}, Cardinality(FolderPool))}

C12_RestoreFrame ==
    [][\A f \in DOMAIN files :
          (restoreFile(f) /\ files[f].deletionStatus = "deleted")
          => /\ files'[f].deletionStatus = "active"
             /\ files'[f].deletedAt = NoTime
             /\ files'[f].deletedBy = ""
             /\ files'[f].scheduledDeletionAt = NoTime
             /\ files'[f].version = files[f].version
             /\ files'[f].status = files[f].status
             /\ SameLineage(files'[f], files[f])
             /\ DOMAIN files' = DOMAIN files
             /\ \A g \in DOMAIN files \ {f} : files'[g] = files[g]]_vars

(* C12 witness: a restored file whose container mate is still in the       *)
(* trash, with the stamp of the soft-delete that hit both.                 *)
C12_Witness ==
    \E f \in DOMAIN files : \E g \in DOMAIN files \ {f} :
        /\ files[f].deletionStatus = "active" /\ files[f].scheduledDeletionAt = NoTime
        /\ files[g].deletionStatus = "deleted" /\ files[g].scheduledDeletionAt # NoTime

C14_FolderCascade ==
    [][\A d \in DOMAIN folders, u \in Users, seen \in BOOLEAN :
          moveFolderToTrash(d, u, seen)
          => \A i \in FilesBelow(d) :
                /\ files'[i].deletionStatus = "deleted"
                /\ files'[i].scheduledDeletionAt = now + RETENTION]_vars

(* C15: soft-delete removes no record.  After moveFolderToTrash(d) a       *)
(* stored record of d exists with status deleted and its deadline; after   *)
(* moveFileToTrash every member of the container is still stored, with     *)
(* status deleted and its deadline.                                        *)
C15_NoPhysicalRemoval ==
    [][/\ \A d \in DOMAIN folders, u \in Users, seen \in BOOLEAN :
             moveFolderToTrash(d, u, seen)
             => /\ d \in DOMAIN trash'
                /\ trash'[d].deletionStatus = "deleted"
                /\ trash'[d].scheduledDeletionAt = now + RETENTION
       /\ \A f \in DOMAIN files, u \in Users :
             (moveFileToTrash(f, u) /\ moveFileToTrashStatus(f) = 200)
             => \A g \in activeContainerFiles(files[f]) :
                   /\ g \in DOMAIN files'
                   /\ files'[g].deletionStatus = "deleted"
                   /\ files'[g].scheduledDeletionAt = now + RETENTION]_vars

(* No file and no folder is in the trash with its deadline in the past. *)
NothingExpiredInTrash ==
    /\ \A i \in DOMAIN files :
          ~(files[i].deletionStatus = "deleted" /\ files[i].scheduledDeletionAt < now)
    /\ \A d \in DOMAIN trash :
          ~(trash[d].deletionStatus = "deleted" /\ trash[d].scheduledDeletionAt < now)

(* C16: with the sweep running again and again, every soft-deleted file    *)
(* and folder whose deadline has passed is eventually permanently_deleted  *)
(* (or restored): again and again no expired item is left in the trash.    *)
C16_EventuallyPurged == []<>NothingExpiredInTrash

(* C17: the sweep is idempotent and its runs may overlap.  Two runs that   *)
(* took their time at t1 <= t2, in either order, leave the records the     *)
(* single run at t2 leaves (with t1 = t2: a second run over the result     *)
(* changes nothing); and a run, overlapping or not, changes only           *)
(* records that are deleted with a deadline in the past, and only by       *)
(* setting them to permanently_deleted.                                    *)
C17_SweepIdempotent ==
    /\ [](\A t2 \in SweepTimes :
             LET single == purgeExpired(files, t2)
             IN \A t1 \in {t \in SweepTimes : t <= t2} :
                   /\ purgeExpired(purgeExpired(files, t1), t2) = single
                   /\ purgeExpired(single, t1) = single)
    /\ [][(cleanupExpiredItems \/ OverlappingCleanupStep)
          => \A f \in DOMAIN files :
                files'[f] # files[f]
                => /\ files[f].deletionStatus = "deleted"
                   /\ files[f].scheduledDeletionAt < now
                   /\ files'[f] = [files[f] EXCEPT !.deletionStatus = "permanently_deleted"]]_vars

(* C17 witness: the sweep has purged one file and left a restored file,    *)
(* whose deadline it had not reached, alone.                               *)
C17_Witness ==
    \E f \in DOMAIN files, g \in DOMAIN files :
        /\ files[f].deletionStatus = "permanently_deleted"
        /\ files[f].scheduledDeletionAt < now
        /\ files[g].deletionStatus = "active"

(* C18: moveFolderToTrash is retry-safe.  Run again on a folder that a     *)
(* complete or a part-way run has put in the trash, it ends with the       *)
(* folder in the trash with status deleted and not among the active        *)
(* folders, every file below it deleted, and no file record lost.          *)
C18_FolderRetrySafe ==
    [][\A d \in DOMAIN trash, u \in Users, seen \in BOOLEAN :
          moveFolderToTrash(d, u, seen)
          => /\ d \notin DOMAIN folders'
             /\ d \in DOMAIN trash' /\ trash'[d].deletionStatus = "deleted"
             /\ DOMAIN files' = DOMAIN files
             /\ \A i \in FilesBelow(d) : files'[i].deletionStatus = "deleted"]_vars

(* GET /api/files/:fileId/versions: the members found for the file's name  *)
(* and scope, sorted by the numeric value of the version, largest first.   *)
RECURSIVE sortByVersionDesc(_)
sortByVersionDesc(S) ==
    IF S = {} THEN <<>>
    ELSE LET m == CHOOSE x \in S : \A y \in S : files[x].version >= files[y].version
         IN <<m>> \o sortByVersionDesc(S \ {m})

listVersions(fileId) ==
    sortByVersionDesc(getFilesByOriginalName(files[fileId].originalName, files[fileId].projectId,
                                             files[fileId].taskId, files[fileId].parentFolderId))

C20_MonotonicLabels ==
    /\ [](\A f \in DOMAIN files : \A g \in ActiveMembers(f) \ {f} :
             Active(files[f]) => files[f].version # files[g].version)
    /\ [][\A name \in Names, scope \in UploadScopes, user \in Users :
             Upload(name, scope, user)
             => \A g \in DOMAIN files :
                   (Active(files[g]) /\ SameLineage(files[g], NewFileItem(now, name, scope, 1, user)))
                   => files'[now].version > files[g].version]_vars

(* C21: lineage scope isolation.  The version an upload assigns is the     *)
(* one computed from the counted files with the same original name in the  *)
(* same (project, task, folder) scope as the new record; files of another  *)
(* scope never change it, also when the upload names no project, task or   *)
(* folder.                                                                 *)
C21_ScopeIsolation ==
    [][\A name \in Names, scope \in UploadScopes, user \in Users :
          Upload(name, scope, user) =>
             LET item == NewFileItem(now, name, scope, 1, user)
                 own == {i \in DOMAIN files : /\ files[i].deletionStatus # "deleted"
                                              /\ SameLineage(files[i], item)}
             IN files'[now].version = nextVersionNumber(own)]_vars

(* C22: softDeleteFileContainer(f) changes only members of f's lineage:    *)
(* every record outside that lineage is the same after the call.           *)
C22_TrashFrame ==
    [][\A fileId \in DOMAIN files, user \in Users :
          moveFileToTrash(fileId, user) =>
             \A g \in DOMAIN files \ LineageOf(fileId) : files'[g] = files[g]]_vars

C24_FreshAfterMutation ==
    [][\A resourceType \in ResourceTypes, resourceId \in ResourceIds :
          LET key == getCacheKey(toUpperCase(safeResourceType(resourceType)), resourceId)
          IN (/\ getShareableLinksStatus(resourceType, resourceId) = 200
              /\ key \in DOMAIN cache
              /\ isValidCacheEntry(cache[key], now)
              /\ processGetShareableLinks(resourceType, resourceId))
             => listed'.data = queryByResource(links, key)]_vars

(* C25: cache TTL.  A listing is served from the cache only from an entry  *)
(* populated less than CACHE_TTL ago; with an older or no entry the store  *)
(* is queried by the resource key, and when the query returns the entry is *)
(* replaced by the result and the current time.                            *)
C25_CacheTTL ==
    /\ [][\A resourceType \in ResourceTypes, resourceId \in ResourceIds :
             (/\ processGetShareableLinks(resourceType, resourceId)
              /\ getShareableLinksStatus(resourceType, resourceId) = 200)
             => LET key == getCacheKey(toUpperCase(safeResourceType(resourceType)), resourceId)
                    fresh == key \in DOMAIN cache /\ now - cache[key].timestamp < CACHE_TTL
                IN IF fresh
                   THEN /\ listed' = [status |-> 200, key |-> key, data |-> cache[key].data,
                                      source |-> "cache"]
                        /\ pending' = pending
                   ELSE /\ pending' = pending \cup {[key |-> key,
                                                    data |-> queryByResource(links, key)]}
                        /\ listed' = listed]_vars
    /\ [][\A c \in pending :
             getShareableLinksForResource(c)
             => /\ cache'[c.key] = [data |-> c.data, timestamp |-> now]
                /\ listed'.data = c.data]_vars

(* A listing was served from a fresh entry while another entry has aged    *)
(* past the TTL.                                                           *)
C25_Witness == /\ listed.source = "cache"
               /\ \E k \in DOMAIN cache : now - cache[k].timestamp >= CACHE_TTL

Range(s) == {s[j] : j \in 1..Len(s)}

Scheduled(ts) == UNION {Range(ts[k]) : k \in 1..Len(ts)}

(* C26: the supersede step is detached from the upload.  The put of the    *)
(* new record writes that record alone and returns whether or not the      *)
(* scheduled updates have run; an update that fails changes no record,     *)
(* leaves the uploads in flight as they are, and every remaining file of   *)
(* its task stays scheduled to be marked.                                  *)
C26_DetachedSupersede ==
    /\ [][\A u \in uploads :
             createFilePut(u)
             => /\ files'[u.id].version = u.version
                /\ files'[u.id].status = "Current"
                /\ \A i \in DOMAIN files \ {u.id} : files'[i] = files[i]
                /\ tasks' = tasks]_vars
    /\ [][\A k \in 1..Len(tasks) :
             SupersedeStepFails(k)
             => /\ files' = files
                /\ uploads' = uploads
                /\ Range(Tail(tasks[k])) \subseteq Scheduled(tasks')]_vars

(* Three versions of one lineage after all tasks have run: the update of   *)
(* the first failed each time, the second was marked after that failure.   *)
C26_Witness ==
    /\ tasks = <<>>
    /\ uploads = {}
    /\ \E f, g, h \in DOMAIN files :
          /\ f < g /\ g < h
          /\ files[f].version = 1 /\ files[f].status = "Current"
          /\ files[g].version = 2 /\ files[g].status = "Superseded"
          /\ files[h].version = 3 /\ files[h].status = "Current"

(* Two active records of one lineage that are both Current with the same   *)
(* version label ...                                                       *)
DuplicateCurrent(f, g) ==
    /\ f # g
    /\ f \in DOMAIN files /\ g \in DOMAIN files
    /\ SameLineage(files[f], files[g])
    /\ Active(files[f]) /\ Active(files[g])
    /\ files[f].status = "Current" /\ files[g].status = "Current"
    /\ files[f].version = files[g].version

(* ... that no scheduled supersede task names. *)
Unrepaired(f, g) == DuplicateCurrent(f, g) /\ {f, g} \cap Scheduled(tasks) = {}

(* C28: known upload race.  Overlapping uploads leave two active records   *)
(* of one lineage that are both Current with the same version label (for   *)
(* an empty lineage both "1.0"), and no step other than the start of a     *)
(* further upload ends that: the background steps never repair it.         *)
C28_RaceNotRepaired ==
    [][\A f, g \in DOMAIN files :
          (Unrepaired(f, g) /\ uploads' \subseteq uploads) => Unrepaired(f, g)']_vars

(* Two uploads to the empty lineage overlapped: both records are "1.0" and *)
(* Current, and nothing is in flight or scheduled.                         *)
C28_Witness ==
    /\ uploads = {}
    /\ tasks = <<>>
    /\ \E f, g \in DOMAIN files : Unrepaired(f, g) /\ files[f].version = 1

(* C29: version assignment.  An upload to a lineage whose active set has   *)
(* n >= 1 members persists the new record with version n + 1 and status    *)
(* Current and schedules exactly those n members to be marked Superseded.  *)
C29_VersionAssignment ==
    [][\A name \in Names, scope \in UploadScopes, user \in Users :
          createFileBegin(name, scope, user) =>
             LET item == NewFileItem(now, name, scope, 1, user)
                 members == {i \in DOMAIN files : Active(files[i]) /\ SameLineage(files[i], item)}
             IN members # {} =>
                   /\ \E u \in uploads' : /\ u.id = now
                                           /\ u.version = Cardinality(members) + 1
                                           /\ NewFileItem(u.id, u.originalName, u.scope, u.version,
                                                          u.user).status = "Current"
                   /\ tasks' = Append(tasks, SortedSeq(members))]_vars

(* C30: a failed lookup is not taken for an empty lineage.  No upload      *)
(* persists a record with version "1.0" and status Current while its       *)
(* lineage has an active member, also when the lookup query fails.         *)
C30_LookupFailureNotFresh ==
    [][\A f \in DOMAIN files' \ DOMAIN files :
          (\E g \in DOMAIN files : Active(files[g]) /\ SameLineage(files[g], files'[f]))
          => ~(files'[f].version = 1 /\ files'[f].status = "Current")]_vars

(* The original filename is there and is not the hash itself. *)
PresentOriginalName(rec) == rec.originalName # "" /\ rec.originalName # rec.name

(* It also has an extension. *)
IntactOriginalName(rec) == PresentOriginalName(rec) /\ hasProperOriginalName(rec.originalName)

queryStampedFiles == {i \in DOMAIN files : files[i].deletedAt # NoTime}

(* getTrashItems: the QueryCommand on the FILES partition with the filter  *)
(* deletionStatus = 'deleted'.                                             *)
queryDeletedFiles == {i \in DOMAIN files : files[i].deletionStatus = "deleted"}

(* getTrashItems: sort((a, b) => dateB - dateA) on deletedAt. *)
RECURSIVE sortByDeletedAtDesc(_)
sortByDeletedAtDesc(S) ==
    IF S = {} THEN <<>>
    ELSE LET m == CHOOSE x \in S : \A y \in S : files[x].deletedAt >= files[y].deletedAt
         IN <<m>> \o sortByDeletedAtDesc(S \ {m})

(* GET /api/trash: the items of the response. *)
getTrashItems == sortByDeletedAtDesc(queryDeletedFiles)

queriedPartition(projectId) == IF projectId # 0 THEN {} ELSE DOMAIN files

(* getFiles: the grouping key of a file within one query. *)
containerKey(rec) == IF rec.originalName # "" THEN rec.originalName ELSE rec.name

(* AwsStorage.getFiles as GET /api/files calls it (folderId is null, "",   *)
(* for the root): task filter, deletionStatus !== 'deleted', folder        *)
(* filter, then the most recently created file of each container key.      *)
getFiles(projectId, taskId, folderId) ==
    LET shown == {i \in queriedPartition(projectId) :
                     /\ (taskId # 0 => files[i].taskId = taskId)
                     /\ files[i].deletionStatus # "deleted"
                     /\ files[i].parentFolderId = folderId}
    IN {i \in shown : \A j \in shown :
            containerKey(files[j]) = containerKey(files[i])
            => files[j].createdAt <= files[i].createdAt}

(* The queries of the listing, and the files a query asks for. *)
ListQueries == [projectId : ProjectIds \cup {0}, taskId : TaskIds \cup {0},
                folderId : FolderIds \cup {""}]

InQueriedScope(rec, q) == /\ (q.projectId # 0 => rec.projectId = q.projectId)
                          /\ (q.taskId # 0 => rec.taskId = q.taskId)
                          /\ rec.parentFolderId = q.folderId

(* C32: the regular listing returns no deleted and no permanently_deleted  *)
(* file, and for every lineage in the queried scope that has an active     *)
(* member exactly one entry, its most recently uploaded active member.     *)
C32_RegularListing ==
    \A q \in ListQueries :
        LET listing == getFiles(q.projectId, q.taskId, q.folderId)
        IN /\ \A i \in listing : Active(files[i])
           /\ \A f \in DOMAIN files :
                 (Active(files[f]) /\ InQueriedScope(files[f], q))
                 => \E m \in ActiveMembers(f) :
                       /\ \A g \in ActiveMembers(f) : files[g].createdAt <= files[m].createdAt
                       /\ listing \cap LineageOf(f) = {m}

(* C33: a failed resolveLink (link missing or inactive, expired, usage cap *)
(* reached, password mismatch) leaves every stored link record, its        *)
(* currentUses included, and the cache of listings as they were.           *)
C33_FailedResolveFrame ==
    [][\A entry \in {"api", "browser"}, id \in LinkIds, password \in SuppliedPasswords :
          (/\ resolveLink(entry, id, password)
           /\ resolveStatus(entry, id, password) \in {404, 410, 401})
          => /\ links' = links
             /\ cache' = cache]_vars

(* A resolution was refused for its password while a listing with the link *)
(* is cached.                                                              *)
C33_Witness == /\ resp.status = 401
               /\ \E k \in DOMAIN cache : cache[k].data # {}


(* C34: once no resolution is in flight, the stored currentUses of a link  *)
(* equals the number of resolutions of it that succeeded.                  *)
C34_NoLostIncrement ==
    calls = {}
    => \A id \in DOMAIN stats.succeeded :
           linkFound(links, id) => links[id].currentUses = stats.succeeded[id]


(* A link id that was handed out and whose link is not found any more. *)
DeletedLink(id) == id \in 1..linkSeq /\ ~linkFound(links, id)

(* C35: after deleteLink has returned, a resolution of the token is        *)
(* answered 404, the usage write of a resolution that was in flight does   *)
(* not bring the link back, and no listing that starts afterwards contains *)
(* the link.                                                               *)
C35_DeletedStaysGone ==
    /\ [][\A entry \in {"api", "browser"}, id \in LinkPool :
             (DeletedLink(id) /\ resolveBegin(entry, id, ""))
             => resp'.status = 404 /\ calls' = calls]_vars
    /\ [][\A c \in calls :
             (DeletedLink(c.linkId) /\ resolveWrite(c)) => ~linkFound(links', c.linkId)]_vars
    /\ [][\A id \in LinkPool :
             (DeletedLink(id) /\ FileLinkListStep)
             => /\ \A c \in pending' \ pending : \A l \in c.data : l.id # id
                /\ (/\ <<"FILE", "10">> \in DOMAIN cache
                    /\ isValidCacheEntry(cache[<<"FILE", "10">>], now))
                   => \A l \in listed'.data : l.id # id]_vars


(* C36: once no listing is waiting for its query, every entry of the link  *)
(* cache holds the links as they are stored now, never a listing read      *)
(* before a create, update or delete that has returned since.              *)
C36_NoStaleEntry ==
    pending = {} => \A key \in DOMAIN cache : cache[key].data = queryByResource(links, key)


(* C37: the put of an upload writes a record under an id that no record    *)
(* has, and leaves every existing record as it is.                         *)
C37_FreshId ==
    [][\A u \in uploads :
          createFilePut(u)
          => /\ u.id \notin DOMAIN files
             /\ \A i \in DOMAIN files : files'[i] = files[i]]_vars


(* C38: moveFileToTrash called with the id of a file that is deleted or    *)
(* permanently_deleted changes no record.                                  *)
C38_RepeatedTrashFrame ==
    [][\A fileId \in DOMAIN files, user \in Users :
          (/\ files[fileId].deletionStatus \in {"deleted", "permanently_deleted"}
           /\ moveFileToTrash(fileId, user))
          => files' = files]_vars


(* C39: restoreFolder on a folder that moveFolderToTrash put in the trash  *)
(* makes the folder an active folder again, and a file of the folder that  *)
(* was in the trash before the folder was deleted stays deleted with the   *)
(* deadline it had.                                                        *)
C39_FolderRoundTrip ==
    \A d \in DOMAIN trash :
        trash[d].deletionStatus = "deleted"
        => ENABLED (/\ restoreFolder(d)
                    /\ d \in DOMAIN folders'
                    /\ \A i \in DOMAIN files :
                          (/\ files[i].parentFolderId = d
                           /\ files[i].deletionStatus = "deleted"
                           /\ files[i].deletedAt < trash[d].deletedAt)
                          => files'[i] = files[i])
====
